---- MODULE Spec2Model ----
(***************************************************************************)
(* Model of the four custom elements of the website-effects repository:    *)
(*   "HolidayCursor"      src/holiday-cursor.js   (dot + circle followers) *)
(*   "HolidayMouse"       src/unnamed/part_000    (single follower)        *)
(*   "Snowfall"           src/unnamed/part_001, lines 9-208                *)
(*   "SnowfallOptimized"  src/unnamed/part_001, lines 226-449              *)
(*                                                                         *)
(* Numbers.  JavaScript numbers are modelled in exact fixed point:         *)
(*   - pointer coordinates (clientX, clientY) and viewport sizes: pixels;  *)
(*   - follower positions: 1/Res(component) pixel, Res chosen so that      *)
(*     MaxEaseDepth easing steps from a whole pixel are exact;             *)
(*   - particle and snowflake positions, velocities, sizes: micro-pixels;  *)
(*   - life, decay, opacity, depth: millionths; Math.random(): thousandths *)
(*   - angles: milli-radians; Date.now(): milliseconds.                    *)
(***************************************************************************)
EXTENDS Integers, Sequences, FiniteSets, TLC

VARIABLES
  component,          \* which of the four custom elements this instance is
  connected,          \* TRUE between connectedCallback and disconnectedCallback
  now,                \* Date.now()
  animationId,        \* this.animationId (0 is null)
  frames,             \* the requestAnimationFrame requests still pending
  \* ---- cursor components
  particles,          \* this.particles
  mouseX, mouseY,     \* this.mouseX, this.mouseY
  dotX, dotY,         \* this.dotX, this.dotY          (HolidayCursor)
  circleX, circleY,   \* this.circleX, this.circleY    (HolidayCursor)
  cursorX, cursorY,   \* this.cursorX, this.cursorY    (HolidayMouse)
  isHovering,         \* this.isHovering
  isClicking,         \* this.isClicking
  dotSize,            \* cursorDot.style: the width in pixels (HolidayCursor),
                      \* the scale in tenths (HolidayMouse); 0 before the
                      \* element is created
  ringSize,           \* cursorCircle / cursorRing.style.width in pixels
  hoverElement,       \* this.currentHoverElement / this.magneticElement
  lastParticleTime,   \* this.lastParticleTime
  drawn,              \* what the last frame painted on the particle/snow canvas
  \* ---- snowfall components
  snowflakes,         \* this.snowflakes
  innerWidth, innerHeight,     \* window.innerWidth, window.innerHeight
  canvasWidth, canvasHeight,   \* this.canvas.width, this.canvas.height
  resizeTimeout,      \* this.resizeTimeout (0 is null)
  timerDue,           \* the time the timer set last may run its callback
  timers,             \* the setTimeout timers still pending
  isVisible,          \* this.isVisible (SnowfallOptimized)
  documentHidden,     \* document.hidden
  scrollY,            \* window.scrollY
  \* ---- the page
  listeners,          \* the kinds of listener the component has on the page
  attached,           \* the overlay nodes (cursor elements, canvas) are in the body
  cursorRule,         \* a style sheet with "* { cursor: none !important }" is in the head
  inlineCursor,       \* body and elements carry the inline style cursor: none
  connects,           \* connectedCallback calls so far: the number of listeners
                      \* of each kind added as an anonymous function
  hoverPairs,         \* the mouseenter/mouseleave listener pairs the component
                      \* has on a clickable element of the page
  \* ---- history variables (not program state)
  disconnects,        \* disconnectedCallback calls since the last connectedCallback
  lastSpawn,          \* kind of the last particle spawn: "none", "sparkle", "burst"
  ticksSinceSpawn,    \* updateParticles passes over a non-empty list since then
  frameCount,         \* snow frames run so far (bounded by MaxFrames)
  scrollCount,        \* scroll events so far (bounded by MaxScrolls)
  countLog            \* the last two snowflake counts computed, latest last

lifecycleVars == <<component, connected, animationId, frames>>
followerVars  == <<dotX, dotY, circleX, circleY, cursorX, cursorY>>
pointerVars   == <<mouseX, mouseY, isHovering, isClicking, hoverElement,
                   dotSize, ringSize>>
particleVars  == <<particles, lastParticleTime, lastSpawn, ticksSinceSpawn>>
cursorVars    == <<followerVars, pointerVars, particleVars>>
windowVars    == <<innerWidth, innerHeight, scrollY, documentHidden>>
snowVars      == <<snowflakes, canvasWidth, canvasHeight, resizeTimeout, timerDue, timers,
                   isVisible, frameCount, scrollCount, countLog>>
pageVars      == <<listeners, attached, cursorRule, inlineCursor, connects,
                   hoverPairs, disconnects>>
vars == <<lifecycleVars, now, cursorVars, drawn, windowVars, snowVars, pageVars>>

-----------------------------------------------------------------------------
(* Bounds of the model *)

\* easing steps from a whole-pixel position that stay exactly representable
MaxEaseDepth == 3
\* a spawn never makes the particle list longer than this
MaxParticles == 13
\* snow frames per run
MaxFrames == 10
\* scroll events per run
MaxScrolls == 1
\* connectedCallback calls per run
MaxConnects == 2
\* disconnectedCallback calls between two connectedCallback calls
MaxDisconnects == 2
\* listener pairs on one element up to which DOM mutations are observed
MaxHoverPairs == 3
\* snow frames per run of the lifecycle specification
MaxLifecycleFrames == 3

Milli == 10 * 10 * 10
Micro == Milli * Milli

CursorComponents == {"HolidayCursor", "HolidayMouse"}
SnowComponents   == {"Snowfall", "SnowfallOptimized"}

RECURSIVE Pow(_, _)
Pow(b, n) == IF n = 0 THEN 1 ELSE b * Pow(b, n - 1)

RECURSIVE GCD(_, _)
GCD(a, b) == IF b = 0 THEN a ELSE GCD(b, a % b)

Abs(n) == IF n < 0 THEN -n ELSE n

Range(s) == {s[i] : i \in DOMAIN s}

\* floor of the square root of a natural number (Math.sqrt, exact on squares)
Sqrt(n) == CHOOSE r \in 0..n : r * r <= n /\ (r + 1) * (r + 1) > n

-----------------------------------------------------------------------------
(* Follower easing: animate() of the two cursor components *)

\* easing constants, in hundredths
dotEase    == 18
circleEase == 8
ease       == 15

\* sub-pixel resolution of follower positions: the easing factors reduce to
\* 9/50 and 2/25 (HolidayCursor) and 3/20 (HolidayMouse)
Res(c) == IF c = "HolidayCursor" THEN Pow(50, MaxEaseDepth) ELSE Pow(20, MaxEaseDepth)

\* mutant: the follower jumps to the target
EaseStep_Snap(pos, target, e) == target

\* pos += (target - pos) * e, with e in hundredths
EaseStep(pos, target, e) ==
  LET g == GCD(e, 100)
  IN  pos + ((target - pos) \div (100 \div g)) * (e \div g)

\* the step above is exact at this resolution
EaseExact(pos, target, e) == (target - pos) % (100 \div GCD(e, 100)) = 0

-----------------------------------------------------------------------------
(* Particles of the two cursor components *)

\* cos and sin of a whole number of degrees (multiples of 30 and of 45), in
\* thousandths
CosMilli(deg) ==
  LET d == deg % 360
      a == IF d > 180 THEN 360 - d ELSE d
  IN  CASE a = 0   -> 1000
        [] a = 30  -> 866
        [] a = 45  -> 707
        [] a = 60  -> 500
        [] a = 90  -> 0
        [] a = 120 -> -500
        [] a = 135 -> -707
        [] a = 150 -> -866
        [] a = 180 -> -1000

SinMilli(deg) == CosMilli(deg + 270)

\* the ids not used by a live particle, smallest first (ids only tell the
\* particles of a list apart; the code has object identity instead)
FreeId(ps, k) ==
  LET used == {ps[i].id : i \in DOMAIN ps}
      free == (1..(Len(ps) + k + 1)) \ used
  IN  CHOOSE n \in free : Cardinality({m \in free : m < n}) = k

\* Math.random() results of one createSparkle call, in thousandths
SparkleDraws ==
  { [x |-> r, y |-> r, vx |-> r, vy |-> 999 - r, size |-> r, color |-> r, decay |-> r]
      : r \in {0, 999} }

\* Math.random() results of one click burst: particle index -> draws
BurstDraws ==
  { [i \in 0..11 |-> [speed |-> 0, size |-> 0, color |-> 0]],
    [i \in 0..11 |-> [speed |-> 999, size |-> (i * 83) % 1000, color |-> (i * 409) % 1000]] }

\* mutant: the intervals of the two components exchanged
SparkleInterval_Swapped(c) == IF c = "HolidayCursor" THEN 50 ELSE 80

SparkleInterval(c) == IF c = "HolidayCursor" THEN 80 ELSE 50
Gravity(c)         == IF c = "HolidayCursor" THEN 80000 ELSE 100000
BurstCount(c)      == IF c = "HolidayCursor" THEN 8 ELSE 12

\* mutant: the burst decays of the two components exchanged
BurstDecay_Swapped(c) == IF c = "HolidayCursor" THEN 20000 ELSE 25000

\* decay: 0.025 (createClickRipple) and 0.02 (createClickBurst), in millionths
BurstDecay(c) == IF c = "HolidayCursor" THEN 25000 ELSE 20000

\* mutant: a sparkle may decay half as fast as the slowest one
SparkleDecay_Slow(c, r) ==
  IF c = "HolidayCursor" THEN r * 15 + 5000 ELSE r * 20 + 5000

\* decay: Math.random() * 0.015 + 0.01 (part_000: * 0.02 + 0.01), in
\* millionths, r the draw in thousandths
SparkleDecay(c, r) ==
  IF c = "HolidayCursor" THEN r * 15 + 10000 ELSE r * 20 + 10000

\* createSparkle(x, y): the particle pushed, x and y in pixels
CreateSparkle(c, x, y, r, id) ==
  IF c = "HolidayCursor"
  THEN [id |-> id, kind |-> "sparkle",
        x  |-> x * Micro + (r.x - 500) * 20 * Milli,
        y  |-> y * Micro + (r.y - 500) * 20 * Milli,
        vx |-> (r.vx - 500) * 1500,
        vy |-> (r.vy - 500) * 1500 - 500000,
        size  |-> r.size * 2500 + Micro,
        color |-> (r.color * 6) \div 1000,
        life  |-> Micro,
        decay |-> SparkleDecay(c, r.decay)]
  ELSE [id |-> id, kind |-> "sparkle",
        x  |-> x * Micro,
        y  |-> y * Micro,
        vx |-> (r.vx - 500) * 2000,
        vy |-> (r.vy - 500) * 2000 - Micro,
        size  |-> r.size * 3000 + Micro,
        color |-> (r.color * 6) \div 1000,
        life  |-> Micro,
        decay |-> SparkleDecay(c, r.decay)]

\* mutant: the angular increment doubled
BurstParticle_TwiceRound(c, x, y, i, r, id) ==
  LET deg   == (720 * i) \div BurstCount(c)
      speed == IF c = "HolidayCursor" THEN r.speed * 2 + 1500 ELSE r.speed * 3 + 2000
  IN  [id |-> id, kind |-> "burst", x |-> x * Micro, y |-> y * Micro,
       vx |-> CosMilli(deg) * speed, vy |-> SinMilli(deg) * speed,
       size |-> r.size * 3000 + 2 * Micro, color |-> i % 2,
       life |-> Micro, decay |-> BurstDecay(c)]

\* particle i (from 0) of the burst of createClickRipple / createClickBurst
BurstParticle(c, x, y, i, r, id) ==
  LET deg   == (360 * i) \div BurstCount(c)
      speed == IF c = "HolidayCursor" THEN r.speed * 2 + 1500 ELSE r.speed * 3 + 2000
  IN  [id |-> id, kind |-> "burst",
       x  |-> x * Micro,
       y  |-> y * Micro,
       vx |-> CosMilli(deg) * speed,
       vy |-> SinMilli(deg) * speed,
       size  |-> IF c = "HolidayCursor" THEN r.size * 3000 + 2 * Micro
                                        ELSE r.size * 4000 + 2 * Micro,
       color |-> IF c = "HolidayCursor" THEN i % 2 ELSE (r.color * 3) \div 1000,
       life  |-> Micro,
       decay |-> BurstDecay(c)]

\* the list after the push loop of a click at (x, y)
RECURSIVE PushBurst(_, _, _, _, _, _)
PushBurst(c, ps, x, y, r, i) ==
  IF i >= BurstCount(c) THEN ps
  ELSE PushBurst(c, Append(ps, BurstParticle(c, x, y, i, r[i], FreeId(ps, 0))),
                 x, y, r, i + 1)

\* mutant: the decay grows as the particle ages
StepParticle_Aging(c, p) ==
  [p EXCEPT !.x = p.x + p.vx,
            !.y = p.y + p.vy,
            !.vy = p.vy + Gravity(c),
            !.life = p.life - p.decay,
            !.decay = p.decay + 1000]

\* mutant: the gravity is applied before the move
StepParticle_GravityFirst(c, p) ==
  [p EXCEPT !.x = p.x + p.vx,
            !.y = p.y + p.vy + Gravity(c),
            !.vy = p.vy + Gravity(c),
            !.life = p.life - p.decay]

\* the body of the updateParticles loop before the test: move, gravity, decay
StepParticle(c, p) ==
  [p EXCEPT !.x = p.x + p.vx,
            !.y = p.y + p.vy,
            !.vy = p.vy + Gravity(c),
            !.life = p.life - p.decay]

\* mutant: a particle of life 0 is kept
IsDead_Strict(p) == p.life < 0

\* if (p.life <= 0)
IsDead(p) == p.life <= 0

\* this.particles.splice(i, 1), i from 1
Splice(ps, i) == SubSeq(ps, 1, i - 1) \o SubSeq(ps, i + 1, Len(ps))

\* what the canvas receives for a particle that survives the pass
Paint(p) == [id |-> p.id, x |-> p.x, y |-> p.y, size |-> p.size,
             color |-> p.color, alpha |-> p.life]

\* for (let i = this.particles.length - 1; i >= 0; i--) { ... }
RECURSIVE UpdateLoop(_, _, _, _)
UpdateLoop(c, ps, i, out) ==
  IF i < 1 THEN [particles |-> ps, drawn |-> out]
  ELSE LET q == StepParticle(c, ps[i])
       IN  IF IsDead(q)
           THEN UpdateLoop(c, Splice(ps, i), i - 1, out)
           ELSE UpdateLoop(c, [ps EXCEPT ![i] = q], i - 1, Append(out, Paint(q)))

\* mutant: the loop runs from the first index up, so that the particle after
\* a removed one is passed over
UpdateParticles_Forward(c, ps) ==
  LET RECURSIVE Forward(_, _, _)
      Forward(qs, i, out) ==
        IF i > Len(qs) THEN [particles |-> qs, drawn |-> out]
        ELSE LET q == StepParticle(c, qs[i])
             IN  IF IsDead(q)
                 THEN Forward(Splice(qs, i), i + 1, out)
                 ELSE Forward([qs EXCEPT ![i] = q], i + 1, Append(out, Paint(q)))
  IN  Forward(ps, 1, <<>>)

\* updateParticles(): clearRect, then the loop from the last index down
UpdateParticles(c, ps) == UpdateLoop(c, ps, Len(ps), <<>>)

-----------------------------------------------------------------------------
(* Magnetic pull of the hovered element *)

\* getBoundingClientRect() of the clickable element of the page, in pixels
ElementRect == [left |-> 40, top |-> 60, width |-> 120, height |-> 80]

MagnetRadius(c) == IF c = "HolidayCursor" THEN 80 ELSE 100

\* the pull (centre - pointer) * force * strength as a fraction num / den of a
\* pixel: strength 0.2 with force (80 - d) / 80, or 0.3 with (100 - d) / 100
PullNum(c, delta, d) ==
  IF c = "HolidayCursor" THEN delta * (80 - d) ELSE delta * (100 - d) * 3
PullDen(c) == IF c = "HolidayCursor" THEN 80 * 5 ELSE 100 * 10

\* num / den pixels in units of 1 / res pixel, and whether that is exact
Scaled(num, den, res) == (num \div den) * res + ((num % den) * res) \div den
ScaledExact(num, den, res) == ((num % den) * res) % den = 0

\* distance of the pointer (px, py) from the centre of the element
Distance(px, py) ==
  LET centerX == ElementRect.left + ElementRect.width \div 2
      centerY == ElementRect.top + ElementRect.height \div 2
  IN  Sqrt((px - centerX) * (px - centerX) + (py - centerY) * (py - centerY))

\* if (distance < magnetRadius)
InMagnetRange(c, px, py) == Distance(px, py) < MagnetRadius(c)

\* mutant: no pull
MagneticEffect_None(c, el, px, py, fx, fy) == <<fx, fy>>

\* applyMagneticEffect() / checkMagneticEffect(e): the follower position
\* <<x, y>> it leaves, given the pointer (px, py) and the position before
MagneticEffect(c, el, px, py, fx, fy) ==
  LET centerX == ElementRect.left + ElementRect.width \div 2
      centerY == ElementRect.top + ElementRect.height \div 2
      d       == Distance(px, py)
  IN  IF el = "null" THEN <<fx, fy>>
      ELSE IF InMagnetRange(c, px, py)
      THEN << px * Res(c) + Scaled(PullNum(c, centerX - px, d), PullDen(c), Res(c)),
              py * Res(c) + Scaled(PullNum(c, centerY - py, d), PullDen(c), Res(c)) >>
      ELSE <<fx, fy>>

MagneticExact(c, el, px, py) ==
  LET centerX == ElementRect.left + ElementRect.width \div 2
      centerY == ElementRect.top + ElementRect.height \div 2
      d       == Distance(px, py)
  IN  (el # "null" /\ d < MagnetRadius(c)) =>
        /\ d * d = (px - centerX) * (px - centerX) + (py - centerY) * (py - centerY)
        /\ ScaledExact(PullNum(c, centerX - px, d), PullDen(c), Res(c))
        /\ ScaledExact(PullNum(c, centerY - py, d), PullDen(c), Res(c))

-----------------------------------------------------------------------------
(* State after construction *)

AllComponents == CursorComponents \cup SnowComponents

\* the constructor of each class; the page is at rest
Constructed(c) ==
  /\ component = c
  /\ connected = FALSE
  /\ now = 1000
  /\ animationId = 0
  /\ frames = {}
  /\ particles = <<>>
  /\ mouseX = 0 /\ mouseY = 0
  /\ dotX = 0 /\ dotY = 0
  /\ circleX = 0 /\ circleY = 0
  /\ cursorX = 0 /\ cursorY = 0
  /\ isHovering = FALSE
  /\ isClicking = FALSE
  /\ dotSize = 0
  /\ ringSize = 0
  /\ hoverElement = "null"
  /\ lastParticleTime = 0
  /\ drawn = <<>>
  /\ snowflakes = <<>>
  /\ canvasWidth = 0 /\ canvasHeight = 0
  /\ resizeTimeout = 0
  /\ timerDue = 0
  /\ timers = {}
  /\ isVisible = TRUE
  /\ documentHidden = FALSE
  /\ scrollY = 0
  /\ lastSpawn = "none"
  /\ ticksSinceSpawn = 0
  /\ frameCount = 0
  /\ scrollCount = 0
  /\ countLog = <<>>
  /\ listeners = {}
  /\ attached = FALSE
  /\ cursorRule = FALSE
  /\ inlineCursor = FALSE
  /\ connects = 0
  /\ hoverPairs = 0
  /\ disconnects = 0

-----------------------------------------------------------------------------
(* The cursor components: handlers *)

IsCursor == component \in CursorComponents

\* the sizes createCursorElements gives: the dot 10px wide (part_000: at
\* scale 1), the circle or ring 40px wide
NormalDot(c)  == 10
NormalRing(c) == 40

\* onMouseDown: the dot 6px wide (part_000: scale 0.8), the ring 35px
DownDot(c)  == IF c = "HolidayCursor" THEN 6 ELSE 8
DownRing(c) == 35

\* onElementHover: the dot 14px (part_000: scale 1.5) and the ring 70px
\* (part_000: 60px) on entering, the normal sizes on leaving
HoverDot(c, isEntering) ==
  IF ~isEntering THEN 10 ELSE IF c = "HolidayCursor" THEN 14 ELSE 15
HoverRing(c, isEntering) ==
  IF ~isEntering THEN 40 ELSE IF c = "HolidayCursor" THEN 70 ELSE 60

\* onMouseUp: HolidayCursor sets the hover or the normal size; part_000 sets
\* the normal size if (!this.isHovering) and nothing otherwise
UpDot(c, hovering, size) ==
  IF c = "HolidayCursor" THEN (IF hovering THEN 14 ELSE 10)
  ELSE IF ~hovering THEN 10 ELSE size
UpRing(c, hovering, size) ==
  IF c = "HolidayCursor" THEN (IF hovering THEN 70 ELSE 40)
  ELSE IF ~hovering THEN 40 ELSE size

\* mutant: the pending request is left in place
Cancel_Nothing(pending, id) == pending

\* if (this.animationId) cancelAnimationFrame(this.animationId)
Cancel(pending, id) == pending \ {id}

\* mutant: each call flips the inline cursor style
RestoredInline_Flip(c, inline) == IF c = "HolidayCursor" THEN ~inline ELSE inline

\* the inline cursor style after disconnectedCallback(): HolidayCursor sets
\* document.body.style.cursor and every el.style.cursor to '', HolidayMouse
\* leaves them
RestoredInline(c, inline) == IF c = "HolidayCursor" THEN FALSE ELSE inline

\* the id requestAnimationFrame returns: one no pending request has
NewFrameId(pending) == CHOOSE n \in 1..(Cardinality(pending) + 1) : n \notin pending

Sparkles(ps) == {i \in DOMAIN ps : ps[i].kind = "sparkle"}
Bursts(ps)   == {i \in DOMAIN ps : ps[i].kind = "burst"}

\* animate(): ease the followers from (dx, dy), (cx, cy), (ux, uy) towards the
\* pointer, update the particles, request the next frame
CursorFrame(dx, dy, cx, cy, ux, uy, pending) ==
  LET res == Res(component)
      u   == UpdateParticles(component, particles)
      id  == NewFrameId(pending)
  IN  /\ IF component = "HolidayCursor"
         THEN /\ EaseExact(dx, mouseX * res, dotEase)
              /\ EaseExact(dy, mouseY * res, dotEase)
              /\ EaseExact(cx, mouseX * res, circleEase)
              /\ EaseExact(cy, mouseY * res, circleEase)
              /\ dotX' = EaseStep(dx, mouseX * res, dotEase)
              /\ dotY' = EaseStep(dy, mouseY * res, dotEase)
              /\ circleX' = EaseStep(cx, mouseX * res, circleEase)
              /\ circleY' = EaseStep(cy, mouseY * res, circleEase)
              /\ cursorX' = ux /\ cursorY' = uy
         ELSE /\ EaseExact(ux, mouseX * res, ease)
              /\ EaseExact(uy, mouseY * res, ease)
              /\ cursorX' = EaseStep(ux, mouseX * res, ease)
              /\ cursorY' = EaseStep(uy, mouseY * res, ease)
              /\ dotX' = dx /\ dotY' = dy /\ circleX' = cx /\ circleY' = cy
      /\ particles' = u.particles
      /\ drawn' = u.drawn
      /\ ticksSinceSpawn' = IF particles = <<>> THEN ticksSinceSpawn
                            ELSE ticksSinceSpawn + 1
      /\ animationId' = id
      /\ frames' = pending \cup {id}

\* connectedCallback(): the elements and listeners are created, then
\* startAnimation() runs the first animate() call
CursorConnected ==
  /\ IsCursor /\ ~connected
  /\ connects < MaxConnects
  /\ connected' = TRUE
  /\ attached' = TRUE
  /\ cursorRule' = (cursorRule \/ component = "HolidayCursor")
  /\ inlineCursor' = (inlineCursor \/ component = "HolidayMouse")
  /\ listeners' = listeners \cup {"mouse", "hover", "resize"}
  /\ hoverPairs' = hoverPairs + 1
  /\ connects' = connects + 1
  /\ disconnects' = 0
  /\ IF component = "HolidayCursor"
     THEN CursorFrame(mouseX * Res(component), mouseY * Res(component),
                      mouseX * Res(component), mouseY * Res(component),
                      cursorX, cursorY, frames)
     ELSE CursorFrame(dotX, dotY, circleX, circleY, cursorX, cursorY, frames)
  /\ dotSize' = NormalDot(component)
  /\ ringSize' = NormalRing(component)
  /\ UNCHANGED <<component, now, mouseX, mouseY, isHovering, isClicking,
                 hoverElement, lastParticleTime, lastSpawn, windowVars, snowVars>>

\* disconnectedCallback(): the pending frame is cancelled, the elements are
\* taken out of the body, the four document listeners are removed and (in
\* HolidayCursor) the inline cursor styles are cleared; the style sheet, the
\* hover listeners of the clickable elements and the resize listener of the
\* particle canvas stay
CursorDisconnected ==
  /\ IsCursor
  /\ connects > 0
  /\ disconnects < MaxDisconnects
  /\ disconnects' = disconnects + 1
  /\ connected' = FALSE
  /\ frames' = Cancel(frames, animationId)
  /\ attached' = FALSE
  /\ listeners' = listeners \ {"mouse"}
  /\ inlineCursor' = RestoredInline(component, inlineCursor)
  /\ UNCHANGED <<component, animationId, now, cursorVars, drawn, windowVars,
                 snowVars, cursorRule, connects, hoverPairs>>

\* the frame callback () => this.animate()
CursorAnimate ==
  /\ IsCursor
  /\ \E f \in frames :
       CursorFrame(dotX, dotY, circleX, circleY, cursorX, cursorY, frames \ {f})
  /\ UNCHANGED <<pageVars, component, connected, now, pointerVars, lastParticleTime,
                 lastSpawn, windowVars, snowVars>>

\* onMouseMove(e): e = <<clientX, clientY>>, r the draws of createSparkle
OnMouseMove(e, r) ==
  LET spawn == /\ now - lastParticleTime > SparkleInterval(component)
               /\ (component = "HolidayCursor" => ~isClicking)
      pulled == IF component = "HolidayCursor"
                THEN MagneticEffect(component, hoverElement, e[1], e[2], dotX, dotY)
                ELSE MagneticEffect(component, hoverElement, e[1], e[2], cursorX, cursorY)
  IN  /\ IsCursor /\ "mouse" \in listeners
      /\ spawn => Len(particles) + 1 <= MaxParticles
      /\ MagneticExact(component, hoverElement, e[1], e[2])
      /\ mouseX' = e[1]
      /\ mouseY' = e[2]
      /\ IF spawn
         THEN /\ particles' = Append(particles,
                      CreateSparkle(component, e[1], e[2], r, FreeId(particles, 0)))
              /\ lastParticleTime' = now
              /\ lastSpawn' = "sparkle"
              /\ ticksSinceSpawn' = 0
         ELSE UNCHANGED particleVars
      /\ IF component = "HolidayCursor"
         THEN /\ dotX' = pulled[1] /\ dotY' = pulled[2]
              /\ UNCHANGED <<circleX, circleY, cursorX, cursorY>>
         ELSE /\ cursorX' = pulled[1] /\ cursorY' = pulled[2]
              /\ UNCHANGED <<dotX, dotY, circleX, circleY>>
      /\ UNCHANGED <<pageVars, lifecycleVars, now, isHovering, isClicking, hoverElement,
                     dotSize, ringSize,
                     drawn, windowVars, snowVars>>

\* onMouseDown()
OnMouseDown ==
  /\ IsCursor /\ "mouse" \in listeners
  /\ isClicking' = TRUE
  /\ dotSize' = DownDot(component)
  /\ ringSize' = DownRing(component)
  /\ UNCHANGED <<pageVars, lifecycleVars, now, followerVars, mouseX, mouseY, isHovering,
                 hoverElement, particleVars, drawn, windowVars, snowVars>>

\* onMouseUp()
OnMouseUp ==
  /\ IsCursor /\ "mouse" \in listeners
  /\ isClicking' = FALSE
  /\ dotSize' = UpDot(component, isHovering, dotSize)
  /\ ringSize' = UpRing(component, isHovering, ringSize)
  /\ UNCHANGED <<pageVars, lifecycleVars, now, followerVars, mouseX, mouseY, isHovering,
                 hoverElement, particleVars, drawn, windowVars, snowVars>>

\* onClick(e): createClickRipple / createClickBurst at e = <<clientX, clientY>>
OnClick(e, r) ==
  /\ IsCursor /\ "mouse" \in listeners
  /\ Len(particles) + BurstCount(component) <= MaxParticles
  /\ particles' = PushBurst(component, particles, e[1], e[2], r, 0)
  /\ lastSpawn' = "burst"
  /\ ticksSinceSpawn' = 0
  /\ UNCHANGED <<pageVars, lifecycleVars, now, followerVars, pointerVars, lastParticleTime,
                 drawn, windowVars, snowVars>>

\* the MutationObserver callback, run after a node was added to or removed
\* from the body (by the page, or by the ripples of a click):
\* detectClickableElements() adds a new pair of anonymous listeners to every
\* clickable element
MutationObserved ==
  /\ IsCursor /\ connected
  /\ hoverPairs < MaxHoverPairs
  /\ hoverPairs' = hoverPairs + 1
  /\ UNCHANGED <<lifecycleVars, now, cursorVars, drawn, windowVars, snowVars,
                 listeners, attached, cursorRule, inlineCursor, connects, disconnects>>

\* onElementHover(element, isEntering), from the mouseenter / mouseleave
\* listeners of the clickable element
OnElementHover(el, isEntering) ==
  /\ IsCursor /\ "hover" \in listeners
  /\ isHovering' = isEntering
  /\ hoverElement' = IF isEntering THEN el ELSE "null"
  /\ dotSize' = HoverDot(component, isEntering)
  /\ ringSize' = HoverRing(component, isEntering)
  /\ UNCHANGED <<pageVars, lifecycleVars, now, followerVars, mouseX, mouseY, isClicking,
                 particleVars, drawn, windowVars, snowVars>>

\* pointer positions of the follower specification, in pixels
Points == {<<0, 0>>, <<60, 70>>}

\* the sparkle draws of the follower specification: the short-lived ones
FollowerDraws == {r \in SparkleDraws : r.decay = 999}

InitFollower == \E c \in CursorComponents :
  Constructed(c) /\ innerWidth = 800 /\ innerHeight = 600

NextFollower ==
  \/ CursorConnected
  \/ CursorDisconnected
  \/ CursorAnimate
  \/ \E e \in Points, r \in FollowerDraws : OnMouseMove(e, r)
  \/ \E b \in BOOLEAN : OnElementHover("el", b)

\* the followers under pointer moves, hovering and reconnection, all within
\* one millisecond (so that one sparkle at most is spawned)
SpecFollower == InitFollower /\ [][NextFollower]_vars

\* the pointer in follower units
TargetX == mouseX * Res(component)
TargetY == mouseY * Res(component)

\* the error after is (1 - e) times the error before, e in hundredths; the
\* follower stays on its side of the target
Contracts(before, after, target, e) ==
  LET g == GCD(e, 100)
      d == before - target
  IN  /\ d % (100 \div g) = 0
      /\ after - target = (d \div (100 \div g)) * ((100 - e) \div g)
      /\ Abs(after - target) <= Abs(d)
      /\ (d >= 0) <=> (after - target >= 0)

\* C5: with the pointer held, one animate step multiplies each follower's
\* error, per axis, by (1 - smoothing): 0.82 for the dot, 0.92 for the circle,
\* 0.85 for the single follower; no follower passes the pointer; and with
\* smoothing 0.2 the rule takes 0 to 20 and then to 36 on the way to 100.
C5_Contraction ==
  [][ CursorAnimate =>
        /\ IF component = "HolidayCursor"
           THEN /\ Contracts(dotX, dotX', TargetX, 18)
                /\ Contracts(dotY, dotY', TargetY, 18)
                /\ Contracts(circleX, circleX', TargetX, 8)
                /\ Contracts(circleY, circleY', TargetY, 8)
           ELSE /\ Contracts(cursorX, cursorX', TargetX, 15)
                /\ Contracts(cursorY, cursorY', TargetY, 15)
        /\ LET r == Res(component)
           IN  /\ EaseStep(0, 100 * r, 20) = 20 * r
               /\ EaseStep(20 * r, 100 * r, 20) = 36 * r
               /\ EaseStep(0, 0, 20) = 0
    ]_vars

\* C5, witness: after the pointer moved to (60, 70), two animate steps have
\* brought a follower to 1 - 0.82^2 (1 - 0.85^2) of the way
C5_Witness ==
  /\ connected /\ mouseX = 60 /\ mouseY = 70
  /\ IF component = "HolidayCursor"
     THEN /\ dotX = ((60 * Res(component)) \div 10000) * 3276
          /\ circleX = ((60 * Res(component)) \div 10000) * 1536
     ELSE cursorX = ((60 * Res(component)) \div 10000) * 2775

\* C6 (as claimed): connectedCallback, through the first animate call of
\* startAnimation, leaves every follower exactly on the pointer, in both
\* cursor components.
C6_ActivationExact ==
  [][ CursorConnected =>
        IF component = "HolidayCursor"
        THEN /\ dotX' = mouseX' * Res(component) /\ dotY' = mouseY' * Res(component)
             /\ circleX' = mouseX' * Res(component) /\ circleY' = mouseY' * Res(component)
        ELSE /\ cursorX' = mouseX' * Res(component) /\ cursorY' = mouseY' * Res(component)
    ]_vars

\* a pointer-move step
PointerMoved == \E e \in Points, r \in FollowerDraws : OnMouseMove(e, r)

\* the pointer e is within the magnet radius of the element's centre (100, 100)
NearElement(e) ==
  (e[1] - 100) * (e[1] - 100) + (e[2] - 100) * (e[2] - 100)
    < MagnetRadius(component) * MagnetRadius(component)

\* C7 (as amended): a pointer-move event records the pointer and never moves
\* the circle; it leaves the dot (the single follower) alone unless a hovered
\* element is recorded and the pointer is within the magnet radius (80, 100)
\* of its centre, and then it places that follower on the pointer pulled
\* towards the centre: from (60, 70), with the centre at (100, 100), to
\* (63, 72.25) in HolidayCursor and to (66, 74.5) in HolidayMouse.
C7_MoveAndMagnet ==
  [][ PointerMoved =>
        LET r == Res(component)
            e == <<mouseX', mouseY'>>
        IN  /\ circleX' = circleX /\ circleY' = circleY
            /\ (hoverElement = "null" \/ ~NearElement(e)) =>
                 UNCHANGED <<dotX, dotY, cursorX, cursorY>>
            /\ (hoverElement # "null" /\ e = <<60, 70>>) =>
                 IF component = "HolidayCursor"
                 THEN /\ dotX' = 63 * r /\ dotY' = 72 * r + r \div 4
                      /\ UNCHANGED <<cursorX, cursorY>>
                 ELSE /\ cursorX' = 66 * r /\ cursorY' = 74 * r + r \div 2
                      /\ UNCHANGED <<dotX, dotY>>
    ]_vars

\* C7, witness: the pointer moved to (60, 70) over the hovered element while
\* the follower was elsewhere, and the follower is at the pulled position
C7_Witness ==
  /\ connected /\ hoverElement # "null"
  /\ mouseX = 60 /\ mouseY = 70
  /\ IF component = "HolidayCursor"
     THEN dotX = 63 * Res(component) /\ circleX = 0
     ELSE cursorX = 66 * Res(component)

\* C7 (as claimed): a pointer-move event leaves every follower position
\* unchanged, in every state.
C7_Original == [][ PointerMoved => UNCHANGED followerVars ]_vars

-----------------------------------------------------------------------------
(* Snowflake count: initializeSnowflakes() and handleResize() *)

Min(a, b) == IF a < b THEN a ELSE b

\* const isMobile = window.innerWidth < 768
IsMobile(w) == w < 768

\* mutant: the two divisors of SnowfallOptimized exchanged
Divisor_Swapped(c, w) ==
  IF c = "Snowfall" THEN 8000 ELSE IF IsMobile(w) THEN 10000 ELSE 15000

\* const divisor = isMobile ? 15000 : 10000 (SnowfallOptimized); 8000 (Snowfall)
Divisor(c, w) ==
  IF c = "Snowfall" THEN 8000 ELSE IF IsMobile(w) THEN 15000 ELSE 10000

\* const maxSnowflakes = isMobile ? 50 : 100
MaxSnowflakes(w) == IF IsMobile(w) THEN 50 ELSE 100

\* mutant: the width taken twice
ScreenArea_WidthTwice(w, h) == w * w

\* const screenArea = window.innerWidth * window.innerHeight
ScreenArea(w, h) == w * h

\* mutant: the cap of SnowfallOptimized left out
SnowflakeCount_NoCap(c, w, h) == ScreenArea(w, h) \div Divisor(c, w)

\* the number of snowflakes initializeSnowflakes() creates
SnowflakeCount(c, w, h) ==
  IF c = "Snowfall"
  THEN ScreenArea(w, h) \div Divisor(c, w)
  ELSE Min(ScreenArea(w, h) \div Divisor(c, w), MaxSnowflakes(w))

\* targetCount of the handleResize() timer callback
TargetCount(c, w, h) ==
  IF c = "Snowfall"
  THEN ScreenArea(w, h) \div Divisor(c, w)
  ELSE Min(ScreenArea(w, h) \div Divisor(c, w), MaxSnowflakes(w))

-----------------------------------------------------------------------------
(* Snowflakes *)

\* Math.sin of an angle in milli-radians, in thousandths (Bhaskara's
\* approximation on each half period)
HalfSine(x) ==
  LET t == x * (3142 - x)
  IN  (16 * t) \div ((5 * 3142 * 3142 - 4 * t) \div 1000)

Sine(a) ==
  LET x == a % 6284
  IN  IF x <= 3142 THEN HalfSine(x) ELSE 0 - HalfSine(x - 3142)

\* the product of two numbers given in millionths, in millionths
MulMicro(a, b) ==
  LET ah == a \div 1000
      al == a % 1000
      bh == b \div 1000
      bl == b % 1000
  IN  ah * bh + (ah * bl + al * bh) \div 1000

\* Math.random() results of one createSnowflake call, in thousandths
FlakeDraws ==
  { [size |-> r, x |-> r, y |-> r, speedY |-> r, speedX |-> 999 - r, opacity |-> r,
     swing |-> r, swingSpeed |-> r, angle |-> r, depth |-> r] : r \in {0, 999} }

\* Math.random() results of the reset to the top, in thousandths
ResetDraws == {0, 999}

\* mutant: a new snowflake is placed like an initial one
CreateSnowflake_OnScreen(c, isNew, r, w, h) ==
  [x |-> r.x * w * 1000, y |-> r.y * h * 1000,
   size |-> r.size * 3500 + Micro, speedY |-> r.speedY * 800 + 400000,
   speedX |-> r.speedX * 300 - 150000, opacity |-> r.opacity * 500 + 500000,
   swing |-> r.swing * 1500, swingSpeed |-> r.swingSpeed * 8 + 4000,
   angle |-> r.angle * 6283, depth |-> r.depth * 500 + 500000]

\* createSnowflake(isNew), on a surface of w by h pixels
CreateSnowflake(c, isNew, r, w, h) ==
  IF c = "Snowfall"
  THEN [x |-> r.x * w * 1000,
        y |-> IF isNew THEN (0 - 10) * Micro ELSE r.y * h * 1000,
        size |-> r.size * 4000 + Micro,
        speedY |-> r.speedY * 1000 + 500000,
        speedX |-> r.speedX * 500 - 250000,
        opacity |-> r.opacity * 600 + 400000,
        swing |-> r.swing * 2000,
        swingSpeed |-> r.swingSpeed * 10 + 5000,
        angle |-> r.angle * 6283,
        blur |-> IF r.size * 4000 + Micro > 3 * Micro THEN 1 ELSE 0,
        depth |-> r.depth * 1000]
  ELSE [x |-> r.x * w * 1000,
        y |-> IF isNew THEN (0 - 10) * Micro ELSE r.y * h * 1000,
        size |-> r.size * 3500 + Micro,
        speedY |-> r.speedY * 800 + 400000,
        speedX |-> r.speedX * 300 - 150000,
        opacity |-> r.opacity * 500 + 500000,
        swing |-> r.swing * 1500,
        swingSpeed |-> r.swingSpeed * 8 + 4000,
        angle |-> r.angle * 6283,
        depth |-> r.depth * 500 + 500000]

\* the swing, fall, drift and wind of updateSnowflake, before the tests
MoveSnowflake(c, f, t) ==
  LET a == f.angle + f.swingSpeed
      sway == IF c = "Snowfall"
              THEN MulMicro(Sine(a \div 1000) * 1000, f.swing) \div 10
              ELSE MulMicro(Sine(a \div 1000) * 1000, f.swing) \div 20
      wind == IF c = "Snowfall"
              THEN MulMicro(Sine(t \div 10) * 200, f.depth)
              ELSE Sine(a \div 2000) * 100
  IN  [f EXCEPT !.angle = a,
                !.y = f.y + MulMicro(f.speedY, f.depth),
                !.x = f.x + f.speedX + sway + wind]

\* if (snowflake.y > height + 10)
IsBelow(f, h) == f.y > (h + 10) * Micro

\* mutant: the reset draws the snowflake's look anew
ResetSnowflake_Respawn(f, w, rx) ==
  [f EXCEPT !.y = (0 - 10) * Micro, !.x = rx * w * 1000,
            !.size = rx * 3500 + Micro, !.opacity = rx * 500 + 500000]

\* the reset to the top of a snowflake that left the bottom
ResetSnowflake(f, w, rx) == [f EXCEPT !.y = (0 - 10) * Micro, !.x = rx * w * 1000]

\* mutant: no wrap
WrapSnowflake_None(f, w) == f

\* the horizontal wrap
WrapSnowflake(f, w) ==
  IF f.x > (w + 10) * Micro THEN [f EXCEPT !.x = (0 - 10) * Micro]
  ELSE IF f.x < (0 - 10) * Micro THEN [f EXCEPT !.x = (w + 10) * Micro]
  ELSE f

\* updateSnowflake(snowflake) on a surface of w by h pixels at time t
UpdateSnowflake(c, f, w, h, t, rx) ==
  LET m == MoveSnowflake(c, f, t)
  IN  WrapSnowflake(IF IsBelow(m, h) THEN ResetSnowflake(m, w, rx) ELSE m, w)

\* mutant: a snowflake that left the bottom is dropped from the list
UpdateSnowflakes_Drop(c, fl, w, h, t, rx) ==
  LET kept == {i \in DOMAIN fl : ~IsBelow(MoveSnowflake(c, fl[i], t), h)}
      RECURSIVE Keep(_)
      Keep(i) == IF i > Len(fl) THEN <<>>
                 ELSE IF i \in kept
                 THEN <<UpdateSnowflake(c, fl[i], w, h, t, rx[i])>> \o Keep(i + 1)
                 ELSE Keep(i + 1)
  IN  Keep(1)

\* this.snowflakes.forEach(snowflake => { this.updateSnowflake(snowflake); ... })
UpdateSnowflakes(c, fl, w, h, t, rx) ==
  [i \in DOMAIN fl |-> UpdateSnowflake(c, fl[i], w, h, t, rx[i])]

\* drawSnowflake(snowflake): what the canvas receives
PaintFlake(f) == [x |-> f.x, y |-> f.y, size |-> f.size, alpha |-> f.opacity]

-----------------------------------------------------------------------------
(* The snowfall components: handlers *)

IsSnow == component \in SnowComponents

\* const dpr = Math.min(window.devicePixelRatio || 1, 2), for a ratio of 1
Dpr == Min(1, 2)

\* the surface updateSnowflake measures against: the canvas (Snowfall) or the
\* window (SnowfallOptimized)
BoundsWidth(cw)  == IF component = "Snowfall" THEN cw ELSE innerWidth
BoundsHeight(ch) == IF component = "Snowfall" THEN ch ELSE innerHeight

\* mutant: the reconcile only ever grows the list
Reconcile_GrowOnly(fl, target, fresh) ==
  IF target > Len(fl) THEN fl \o fresh ELSE fl

\* the reconcile of the handleResize() timer callback: push the fresh
\* snowflakes when the target is larger, cut the list when it is smaller
Reconcile(fl, target, fresh) ==
  IF target > Len(fl) THEN fl \o fresh
  ELSE IF target < Len(fl) THEN SubSeq(fl, 1, target)
  ELSE fl

\* the delay of the resize timer, in milliseconds
DebounceMs == 250

\* mutant: a timer still pending keeps its time (a throttle)
DueTime_First(due, t) == IF due > t THEN due ELSE t + DebounceMs

\* the time the timer set at t may run: the one set before, due at due, was
\* cleared
DueTime(due, t) == t + DebounceMs

\* clearTimeout(this.resizeTimeout) followed by setTimeout(...)
Debounce(pending, old, id) == (pending \ {old}) \cup {id}

\* the id setTimeout returns
NewTimerId(pending) == CHOOSE n \in 1..(Cardinality(pending) + 1) : n \notin pending

\* mutant: animate() never returns early
Paused_Never(c, visible) == FALSE

\* if (!this.isVisible) at the head of animate() in SnowfallOptimized;
\* Snowfall has no such test
Paused(c, visible) == c = "SnowfallOptimized" /\ ~visible

\* animate() over the list fl, on a canvas of cw by ch
SnowFrame(fl, cw, ch, pending, rx) ==
  LET id == NewFrameId(pending)
      up == UpdateSnowflakes(component, fl, BoundsWidth(cw), BoundsHeight(ch), now, rx)
  IN  /\ frameCount < MaxFrames
      /\ frameCount' = frameCount + 1
      /\ IF Paused(component, isVisible)
         THEN /\ snowflakes' = fl
              /\ drawn' = drawn
         ELSE /\ snowflakes' = up
              /\ drawn' = [i \in DOMAIN up |-> PaintFlake(up[i])]
      /\ animationId' = id
      /\ frames' = pending \cup {id}

\* connectedCallback(): createSnowfallCanvas(), initializeSnowflakes(),
\* startAnimation(), then the listeners
SnowConnected ==
  /\ IsSnow /\ ~connected
  /\ connects < MaxConnects
  /\ connected' = TRUE
  /\ attached' = TRUE
  /\ listeners' = listeners \cup (IF component = "Snowfall"
                                  THEN {"resize", "scroll"}
                                  ELSE {"resize", "visibilitychange"})
  /\ connects' = connects + 1
  /\ disconnects' = 0
  /\ canvasWidth' = IF component = "Snowfall" THEN innerWidth ELSE innerWidth * Dpr
  /\ canvasHeight' = IF component = "Snowfall" THEN innerHeight ELSE innerHeight * Dpr
  /\ LET n == SnowflakeCount(component, innerWidth, innerHeight)
     IN  \E d \in [1..n -> FlakeDraws], rx \in [1..(Len(snowflakes) + n) -> ResetDraws] :
           SnowFrame(snowflakes \o
                       [i \in 1..n |-> CreateSnowflake(component, FALSE, d[i],
                                                       innerWidth, innerHeight)],
                     canvasWidth', canvasHeight', frames, rx)
  /\ UNCHANGED <<component, now, cursorVars, windowVars, resizeTimeout, timerDue, timers,
                 isVisible, scrollCount, countLog, cursorRule, inlineCursor,
                 hoverPairs>>

\* disconnectedCallback(): the pending frame is cancelled and the canvas is
\* taken out of the body. Snowfall passes new functions to
\* removeEventListener, so its resize and scroll listeners stay;
\* SnowfallOptimized removes its resize listener, and its visibilitychange
\* listener stays (this.visibilityObserver is never set); neither clears
\* this.resizeTimeout
SnowDisconnected ==
  /\ IsSnow
  /\ connects > 0
  /\ disconnects < MaxDisconnects
  /\ disconnects' = disconnects + 1
  /\ connected' = FALSE
  /\ frames' = Cancel(frames, animationId)
  /\ attached' = FALSE
  /\ listeners' = IF component = "SnowfallOptimized"
                  THEN listeners \ {"resize"} ELSE listeners
  /\ UNCHANGED <<component, animationId, now, cursorVars, drawn, windowVars,
                 snowVars, cursorRule, inlineCursor, connects, hoverPairs>>

\* the frame callback () => this.animate()
SnowAnimate ==
  /\ IsSnow
  /\ \E f \in frames, rx \in [1..Len(snowflakes) -> ResetDraws] :
       SnowFrame(snowflakes, canvasWidth, canvasHeight, frames \ {f}, rx)
  /\ UNCHANGED <<pageVars, component, connected, now, cursorVars, windowVars, canvasWidth,
                 canvasHeight, resizeTimeout, timerDue, timers, isVisible, scrollCount, countLog>>

\* the window is resized to w by h; the resize listener runs handleResize(),
\* which restarts the debounce timer
WindowResize(w, h) ==
  /\ IsSnow
  /\ <<w, h>> # <<innerWidth, innerHeight>>
  /\ innerWidth' = w
  /\ innerHeight' = h
  /\ IF "resize" \in listeners
     THEN LET id == NewTimerId(timers \ {resizeTimeout})
          IN  /\ resizeTimeout' = id
              /\ timers' = Debounce(timers, resizeTimeout, id)
              /\ timerDue' = DueTime(timerDue, now)
     ELSE UNCHANGED <<resizeTimeout, timerDue, timers>>
  /\ UNCHANGED <<pageVars, lifecycleVars, now, cursorVars, drawn, scrollY, documentHidden,
                 snowflakes, canvasWidth, canvasHeight, isVisible, frameCount,
                 scrollCount, countLog>>

\* the debounce timer fires: the canvas is resized and the population
\* reconciled with the target count
ResizeTimeout ==
  /\ IsSnow
  /\ \E t \in timers :
       LET target  == TargetCount(component, innerWidth, innerHeight)
           current == Len(snowflakes)
           cw == IF component = "Snowfall" THEN innerWidth ELSE innerWidth * Dpr
           ch == IF component = "Snowfall" THEN innerHeight ELSE innerHeight * Dpr
       IN  /\ timers' = timers \ {t}
           /\ canvasWidth' = cw
           /\ canvasHeight' = ch
           /\ \E d \in [(current + 1)..target -> FlakeDraws] :
                snowflakes' = Reconcile(snowflakes, target,
                  [i \in 1..(target - current) |->
                     CreateSnowflake(component, TRUE, d[current + i],
                                     BoundsWidth(cw), BoundsHeight(ch))])
  /\ UNCHANGED <<pageVars, lifecycleVars, now, cursorVars, drawn, windowVars, resizeTimeout,
                 timerDue,
                 isVisible, frameCount, scrollCount, countLog>>

\* the page is scrolled to sy; the scroll listener of Snowfall runs
\* handleScroll()
WindowScroll(sy) ==
  /\ IsSnow
  /\ sy # scrollY
  /\ scrollCount < MaxScrolls
  /\ scrollCount' = scrollCount + 1
  /\ scrollY' = sy
  /\ IF "scroll" \in listeners
     THEN snowflakes' = [i \in DOMAIN snowflakes |->
            [snowflakes[i] EXCEPT
               !.y = @ + connects * MulMicro(sy * 100, snowflakes[i].depth)]]
     ELSE snowflakes' = snowflakes
  /\ UNCHANGED <<pageVars, lifecycleVars, now, cursorVars, drawn, innerWidth, innerHeight,
                 documentHidden, canvasWidth, canvasHeight, resizeTimeout, timerDue, timers,
                 isVisible, frameCount, countLog>>

\* the page is hidden or shown; SnowfallOptimized records it
VisibilityChange(hidden) ==
  /\ IsSnow
  /\ hidden # documentHidden
  /\ documentHidden' = hidden
  /\ isVisible' = IF "visibilitychange" \in listeners THEN ~hidden ELSE isVisible
  /\ UNCHANGED <<pageVars, lifecycleVars, now, cursorVars, drawn, innerWidth, innerHeight,
                 scrollY, snowflakes, canvasWidth, canvasHeight, resizeTimeout,
                 timerDue, timers, frameCount, scrollCount, countLog>>

-----------------------------------------------------------------------------
(* The particle and snow specification *)

\* viewports of the snow simulation, <<width, height>> in pixels
Viewports == {<<800, 20>>, <<400, 20>>}

Init == \E c \in AllComponents :
  /\ Constructed(c)
  /\ IF c \in SnowComponents
     THEN \E v \in Viewports : innerWidth = v[1] /\ innerHeight = v[2]
     ELSE innerWidth = 800 /\ innerHeight = 600

Next ==
  \/ CursorConnected
  \/ CursorAnimate
  \/ \E r \in SparkleDraws : OnMouseMove(<<mouseX, mouseY>>, r)
  \/ OnMouseDown
  \/ OnMouseUp
  \/ \E e \in {<<100, 100>>}, r \in BurstDraws : OnClick(e, r)
  \/ SnowConnected
  \/ SnowAnimate
  \/ \E v \in Viewports : WindowResize(v[1], v[2])
  \/ ResizeTimeout
  \/ \E sy \in {0, 300} : WindowScroll(sy)
  \/ \E hidden \in BOOLEAN : VisibilityChange(hidden)

\* every component under spawns, clicks, frames, resizes and scrolls; the
\* pointer of a cursor component stays where it is
Spec == Init /\ [][Next]_vars

(***************************************************************************)
(* Connection and disconnection                                            *)
(***************************************************************************)

InitLifecycle == \E c \in AllComponents :
  /\ Constructed(c)
  /\ innerWidth = 800
  /\ innerHeight = IF c \in SnowComponents THEN 20 ELSE 600

NextLifecycle ==
  \/ CursorConnected
  \/ CursorDisconnected
  \/ CursorAnimate
  \/ \E r \in FollowerDraws : OnMouseMove(<<60, 70>>, r)
  \/ \E b \in BOOLEAN : OnElementHover("el", b)
  \/ MutationObserved
  \/ SnowConnected /\ frameCount < MaxLifecycleFrames
  \/ SnowDisconnected
  \/ SnowAnimate /\ frameCount < MaxLifecycleFrames
  \/ \E v \in Viewports : WindowResize(v[1], v[2])
  \/ ResizeTimeout
  \/ WindowScroll(300)
  \/ \E hidden \in BOOLEAN : VisibilityChange(hidden)

\* every component put into the document and taken out of it, up to
\* MaxConnects times, with the events of the page arriving at any moment
SpecLifecycle == InitLifecycle /\ [][NextLifecycle]_vars

\* the element has been taken out of the document and not put back
Deactivated == ~connected /\ disconnects > 0

\* C20: while the component is connected exactly one frame request is
\* pending and animationId identifies it; while it is not connected no
\* frame request is pending, so that animate cannot run
C20_OneFramePending ==
  /\ connected => (Cardinality(frames) = 1 /\ animationId \in frames)
  /\ ~connected => frames = {}

\* frames have run, the component was disconnected and nothing is pending
C20_Witness ==
  /\ Deactivated
  /\ animationId # 0
  /\ frames = {}
  /\ IsSnow => frameCount > 1
  /\ IsCursor => dotX # cursorX

\* C16: a disconnectedCallback() that follows another one changes nothing
C16_SecondCallNoEffect ==
  [][(disconnects' > disconnects /\ disconnects > 0)
       => UNCHANGED <<lifecycleVars, now, cursorVars, drawn, windowVars, snowVars,
                      listeners, attached, cursorRule, inlineCursor, connects,
                      hoverPairs>>]_vars

\* disconnectedCallback() has run twice in a row
C16_Witness == disconnects = 2 /\ ~connected /\ ~attached /\ animationId # 0

\* C15: once a cursor component is disconnected the page shows the default
\* cursor: no 'cursor: none' style rule and no inline cursor style is left
C15_CursorRestored ==
  (IsCursor /\ Deactivated) => (~cursorRule /\ ~inlineCursor)

\* C14: once the component is disconnected no event and no timer changes
\* its state or the page
C14_NothingAfterDisconnect ==
  [][(Deactivated /\ ~connected' /\ disconnects' = disconnects)
       => UNCHANGED <<animationId, frames, followerVars, pointerVars, particles,
                      lastParticleTime, drawn, snowflakes, canvasWidth,
                      canvasHeight, resizeTimeout, timerDue, timers, isVisible, listeners,
                      attached, cursorRule, inlineCursor>>]_vars

\* C1: in both cursor components, after any spawns, clicks and frames, every
\* particle of the list has 0 < life <= 1 and every particle the last
\* updateParticles call drew had life > 0.
C1_LiveParticles ==
  IsCursor =>
    /\ \A i \in DOMAIN particles : particles[i].life > 0 /\ particles[i].life <= Micro
    /\ \A k \in DOMAIN drawn : drawn[k].alpha > 0 /\ drawn[k].alpha <= Micro

\* C1, witness: a click burst has died and been removed while a sparkle
\* spawned before it is still in the list and was drawn
C1_Witness ==
  /\ IsCursor /\ lastSpawn = "burst" /\ ticksSinceSpawn >= 40
  /\ Len(particles) = 1 /\ particles[1].kind = "sparkle"
  /\ Len(drawn) = 1 /\ drawn[1].id = particles[1].id
  /\ drawn[1].alpha = particles[1].life

\* C2: after a click with no later spawn, the burst particles (decay 0.025
\* in HolidayCursor, 0.02 in HolidayMouse) are all in the list, with life
\* 1 - ticks * decay, for fewer than ceil(1 / decay) frames (40 and 50), and
\* none is left from that frame on; a list of burst particles only is then
\* empty.
C2_BurstLifetime ==
  (IsCursor /\ lastSpawn = "burst") =>
    LET n == IF component = "HolidayCursor" THEN 40 ELSE 50
        N == IF component = "HolidayCursor" THEN 8 ELSE 12
    IN  /\ ticksSinceSpawn < n =>
             /\ Cardinality(Bursts(particles)) = N
             /\ \A i \in Bursts(particles) :
                  /\ particles[i].life = Micro - ticksSinceSpawn * particles[i].decay
                  /\ n = (Micro + particles[i].decay - 1) \div particles[i].decay
        /\ ticksSinceSpawn >= n => Bursts(particles) = {}
        /\ (ticksSinceSpawn = n /\ Sparkles(particles) = {}) => particles = <<>>

\* C2, witness: 40 frames after a click of HolidayCursor the list is empty
\* and nothing was drawn
C2_Witness ==
  /\ component = "HolidayCursor" /\ lastSpawn = "burst"
  /\ ticksSinceSpawn = 40
  /\ particles = <<>> /\ drawn = <<>>

\* the particles of the list after the step that have the id of p
Successors(p) == {j \in DOMAIN particles' : particles'[j].id = p.id}

\* one frame lowers the life of every cursor particle by its decay, keeps the
\* decay, and keeps the particle exactly when the new life is positive
DecaysByOwnRate ==
  \A i \in DOMAIN particles :
    LET p == particles[i]
    IN  IF p.life - p.decay <= 0
        THEN Successors(p) = {}
        ELSE \E j \in Successors(p) :
               /\ particles'[j].life = p.life - p.decay
               /\ particles'[j].life < p.life
               /\ particles'[j].decay = p.decay

\* C3 (as amended): each frame lowers the life of every sparkle and burst
\* particle of the cursor components by exactly its own decay, which never
\* changes, and no other step touches a particle; snowflakes have neither a
\* life nor a decay: their opacity is set at creation and no step changes it.
C3_LifeDecay ==
  [][ /\ CursorAnimate => DecaysByOwnRate
      /\ (IsCursor /\ ~CursorAnimate) =>
           \A i \in DOMAIN particles : particles'[i] = particles[i]
      /\ IsSnow =>
           /\ particles = <<>>
           /\ \A i \in DOMAIN snowflakes :
                /\ DOMAIN snowflakes[i] \cap {"life", "decay"} = {}
                /\ i \in DOMAIN snowflakes' =>
                     snowflakes'[i].opacity = snowflakes[i].opacity
    ]_vars

\* C3, witness: a sparkle three frames old and a burst particle two frames
\* old, each at 1 minus so many times its decay
C3_Witness ==
  /\ IsCursor
  /\ \E i \in Sparkles(particles) :
       particles[i].life = Micro - 3 * particles[i].decay
  /\ \E j \in Bursts(particles) :
       particles[j].life = Micro - 2 * particles[j].decay

\* C3 (as claimed): each frame lowers the life of every particle of every
\* component, snowflakes included, by its own decay.
C3_Original ==
  [][ /\ CursorAnimate => DecaysByOwnRate
      /\ SnowAnimate =>
           \A i \in DOMAIN snowflakes :
             /\ {"life", "decay"} \subseteq DOMAIN snowflakes[i]
             /\ PaintFlake(snowflakes'[i]).alpha < PaintFlake(snowflakes[i]).alpha
    ]_vars

\* a scroll step
Scrolled == \E sy \in {0, 300} : WindowScroll(sy)

\* C4: in both snowfall components a frame or a scroll event leaves the
\* number of snowflakes unchanged and every snowflake in its place in the
\* list; a frame that updates the snowflakes leaves none below the bottom
\* edge: one that passed it is back at the top, at y = -10.
C4_PopulationKept ==
  [][ (SnowAnimate \/ Scrolled) =>
        /\ Len(snowflakes') = Len(snowflakes)
        /\ \A i \in DOMAIN snowflakes :
             /\ snowflakes'[i].size = snowflakes[i].size
             /\ snowflakes'[i].depth = snowflakes[i].depth
             /\ (SnowAnimate /\ snowflakes'[i].y < snowflakes[i].y) =>
                  snowflakes'[i].y = (0 - 10) * Micro
             /\ (SnowAnimate /\ (component = "Snowfall" \/ isVisible)) =>
                  snowflakes'[i].y <= (BoundsHeight(canvasHeight) + 10) * Micro
    ]_vars

\* C4, witness: with no resize so far, a snowflake has just been reset to
\* the top and the list still has the length initializeSnowflakes gave it
C4_Witness ==
  /\ IsSnow /\ connected
  /\ resizeTimeout = 0 /\ timers = {}
  /\ frameCount > 1
  /\ Len(snowflakes) = SnowflakeCount(component, innerWidth, innerHeight)
  /\ \E i \in DOMAIN snowflakes : snowflakes[i].y = (0 - 10) * Micro

\* every particle of the list is passed exactly once by the frame: it is
\* gone if its life ran out, and otherwise it is in the list once, moved by
\* its velocity once, with gravity and decay applied once; the particles that
\* stay keep their order, none is added, and each was drawn once
UpdatedOnce ==
  /\ \A i \in DOMAIN particles :
       LET p == particles[i]
       IN  IF p.life - p.decay <= 0
           THEN Successors(p) = {}
           ELSE /\ Cardinality(Successors(p)) = 1
                /\ \A j \in Successors(p) :
                     /\ particles'[j].x = p.x + p.vx
                     /\ particles'[j].y = p.y + p.vy
                     /\ particles'[j].vy = p.vy + (IF component = "HolidayCursor"
                                                   THEN 80000 ELSE 100000)
                     /\ particles'[j].life = p.life - p.decay
  /\ LET Outlives(p) == p.life - p.decay > 0
         kept == SelectSeq(particles, Outlives)
     IN  [j \in DOMAIN particles' |-> particles'[j].id]
           = [j \in DOMAIN kept |-> kept[j].id]
  /\ Len(drawn') = Len(particles')
  /\ {drawn'[k].id : k \in DOMAIN drawn'} = {particles'[j].id : j \in DOMAIN particles'}

\* C17: whatever the order of pointer moves, clicks and frames, a spawn only
\* appends (the particles already in the list are unchanged and the list
\* grows by 1 for a sparkle, by 8 or 12 for a click), and a frame passes
\* every particle of the list exactly once, also when it removes particles.
C17_AppendAndFullPass ==
  [][ /\ Len(particles') > Len(particles) =>
           /\ SubSeq(particles', 1, Len(particles)) = particles
           /\ IF lastSpawn' = "sparkle"
              THEN /\ Len(particles') = Len(particles) + 1
                   /\ particles'[Len(particles')].kind = "sparkle"
              ELSE /\ Len(particles') = Len(particles)
                        + (IF component = "HolidayCursor" THEN 8 ELSE 12)
                   /\ \A i \in DOMAIN particles' \ DOMAIN particles :
                        particles'[i].kind = "burst"
      /\ CursorAnimate => UpdatedOnce
    ]_vars

\* C17, witness: a sparkle appended to the list behind the eight particles
\* of a click that had already aged has survived the frame that removed
\* them, and was drawn by it
C17_Witness ==
  /\ component = "HolidayCursor"
  /\ lastSpawn = "sparkle" /\ ticksSinceSpawn > 0
  /\ Len(particles) = 1 /\ particles[1].kind = "sparkle" /\ particles[1].id = 9
  /\ Len(drawn) = 1 /\ drawn[1].id = 9

\* the surface the snowflakes are kept on, in pixels
SurfaceWidth  == BoundsWidth(canvasWidth)
SurfaceHeight == BoundsHeight(canvasHeight)

\* a frame that updates the snowflakes
SnowUpdated == SnowAnimate /\ (component = "SnowfallOptimized" => isVisible)

C19_FixedAtSpawn ==
  [][ /\ CursorAnimate =>
           \A i \in DOMAIN particles : \A j \in Successors(particles[i]) :
             /\ particles'[j].size = particles[i].size
             /\ particles'[j].color = particles[i].color
             /\ particles'[j].kind = particles[i].kind
             /\ particles'[j].decay = particles[i].decay
             /\ particles'[j].vx = particles[i].vx
      /\ SnowAnimate =>
           /\ DOMAIN snowflakes' = DOMAIN snowflakes
           /\ \A i \in DOMAIN snowflakes :
                /\ snowflakes'[i].size = snowflakes[i].size
                /\ snowflakes'[i].opacity = snowflakes[i].opacity
                /\ snowflakes'[i].speedX = snowflakes[i].speedX
                /\ snowflakes'[i].speedY = snowflakes[i].speedY
                /\ snowflakes'[i].swing = snowflakes[i].swing
                /\ snowflakes'[i].swingSpeed = snowflakes[i].swingSpeed
                /\ snowflakes'[i].depth = snowflakes[i].depth
    ]_vars

\* C19, witness: a snowflake of Snowfall, reset to the top by the last
\* frame, has the size and opacity of its creation
C19_Witness ==
  /\ component = "Snowfall" /\ connected
  /\ resizeTimeout = 0 /\ frameCount > 1
  /\ \E i \in DOMAIN snowflakes :
       /\ snowflakes[i].y = (0 - 10) * Micro
       /\ snowflakes[i].size = 999 * 4000 + Micro
       /\ snowflakes[i].opacity = 999 * 600 + 400000
       /\ snowflakes[i].depth = 999 * 1000

\* the target count for a viewport of w by h, from the numbers of the code
CountFor(w, h) ==
  IF component = "Snowfall" THEN (w * h) \div 8000
  ELSE LET n   == (w * h) \div (IF w < 768 THEN 15000 ELSE 10000)
           cap == IF w < 768 THEN 50 ELSE 100
       IN  IF n < cap THEN n ELSE cap

\* C11: when the debounce timer of handleResize fires, the list of
\* snowflakes ends with exactly the target count of the current viewport,
\* whether it was shorter, longer or of that length (a target of 0
\* included), and the snowflakes that stay are the first ones, unchanged.
C11_ReconcileExact ==
  [][ ResizeTimeout =>
        /\ Len(snowflakes') = CountFor(innerWidth, innerHeight)
        /\ \A i \in DOMAIN snowflakes \cap DOMAIN snowflakes' :
             snowflakes'[i] = snowflakes[i]
    ]_vars

\* C11, witness: SnowfallOptimized, connected at 800 x 20 with one
\* snowflake, has been resized to 400 x 20 and its timer has cut the list to
\* the target 0
C11_Witness ==
  /\ component = "SnowfallOptimized" /\ connected
  /\ innerWidth = 400 /\ canvasWidth = 400
  /\ resizeTimeout # 0 /\ timers = {}
  /\ snowflakes = <<>>
  /\ drawn # <<>>

\* C12 (as amended): when the reconcile grows the list, it appends
\* target - size snowflakes, each created with isNew = true: at the top edge
\* y = -10, with a random x in [0, width).
C12_NewAtTop ==
  [][ ResizeTimeout =>
        \A i \in DOMAIN snowflakes' \ DOMAIN snowflakes :
          /\ Len(snowflakes') = CountFor(innerWidth, innerHeight)
          /\ snowflakes'[i].y = (0 - 10) * Micro
          /\ snowflakes'[i].x >= 0
          /\ snowflakes'[i].x < innerWidth * Micro
    ]_vars

\* C12, witness: Snowfall, connected at 400 x 20 with one snowflake, has
\* been resized to 800 x 20 before its second frame, and the snowflake the
\* timer appended is at y = -10
C12_Witness ==
  /\ component = "Snowfall" /\ connected
  /\ frameCount = 1
  /\ innerWidth = 800 /\ canvasWidth = 800
  /\ Len(snowflakes) = 2
  /\ snowflakes[2].y = (0 - 10) * Micro
  /\ snowflakes[1].y > 0

\* C12 (as claimed): each snowflake the reconcile appends is at a random
\* on-screen height, 0 <= y < viewport height.
C12_Original ==
  [][ ResizeTimeout =>
        \A i \in DOMAIN snowflakes' \ DOMAIN snowflakes :
          /\ snowflakes'[i].y >= 0
          /\ snowflakes'[i].y < innerHeight * Micro
    ]_vars

\* a click step (the only step that lengthens the list by more than one)
Clicked ==
  /\ Len(particles') > Len(particles)
  /\ lastSpawn' = "burst"
  /\ \E e \in {<<100, 100>>}, r \in BurstDraws : OnClick(e, r)

\* C13: a click at (x, y) appends exactly count particles (8 in
\* HolidayCursor, 12 in HolidayMouse) to the list, each at (x, y) with life
\* 1; particle i has the direction of the angle 360 * i / count degrees and
\* a speed in [1.5, 3.5] (HolidayCursor) or [2, 5] (HolidayMouse).
C13_RadialBurst ==
  [][ Clicked =>
        LET N  == IF component = "HolidayCursor" THEN 8 ELSE 12
            lo == IF component = "HolidayCursor" THEN 1500 ELSE 2000
            hi == IF component = "HolidayCursor" THEN 3500 ELSE 5000
            n  == Len(particles)
        IN  /\ Len(particles') = n + N
            /\ SubSeq(particles', 1, n) = particles
            /\ \A i \in 0..(N - 1) :
                 LET p     == particles'[n + 1 + i]
                     cos   == CosMilli((360 * i) \div N)
                     sin   == SinMilli((360 * i) \div N)
                     speed == IF cos # 0 THEN p.vx \div cos ELSE p.vy \div sin
                 IN  /\ p.x = 100 * Micro /\ p.y = 100 * Micro
                     /\ p.life = Micro
                     /\ speed >= lo /\ speed <= hi
                     /\ p.vx = cos * speed
                     /\ p.vy = sin * speed
    ]_vars

\* C13, witness: the eight particles of a click of HolidayCursor at
\* (100, 100), the second one launched at 45 degrees with speed 3.498
C13_Witness ==
  /\ component = "HolidayCursor"
  /\ lastSpawn = "burst" /\ ticksSinceSpawn = 0
  /\ Len(particles) = 8
  /\ \A i \in 1..8 : particles[i].x = 100 * Micro /\ particles[i].kind = "burst"
  /\ particles[2].vx = 707 * 3498 /\ particles[2].vy = 707 * 3498

-----------------------------------------------------------------------------
(* The snowflake count as a function of the viewport *)

\* viewports of the count specification, in pixels
PolicyWidths  == {320, 600, 767, 768, 800, 1200, 1920}
PolicyHeights == {480, 600, 800, 1080}

\* the count initializeSnowflakes() computes for the viewport at connection
CountAtInit ==
  /\ IsSnow
  /\ countLog = <<>>
  /\ countLog' = << [width |-> innerWidth, height |-> innerHeight,
                     count |-> SnowflakeCount(component, innerWidth, innerHeight)] >>
  /\ UNCHANGED <<pageVars, lifecycleVars, now, cursorVars, drawn, windowVars, snowflakes,
                 canvasWidth, canvasHeight, resizeTimeout, timerDue, timers, isVisible,
                 frameCount, scrollCount>>

\* the count handleResize() computes after a resize to w by h
CountAtResize(w, h) ==
  /\ IsSnow
  /\ countLog # <<>>
  /\ innerWidth' = w
  /\ innerHeight' = h
  /\ countLog' = << countLog[Len(countLog)],
                    [width |-> w, height |-> h,
                     count |-> TargetCount(component, w, h)] >>
  /\ UNCHANGED <<pageVars, lifecycleVars, now, cursorVars, drawn, scrollY, documentHidden,
                 snowflakes, canvasWidth, canvasHeight, resizeTimeout, timerDue, timers,
                 isVisible, frameCount, scrollCount>>

InitPolicy == \E c \in SnowComponents, w \in PolicyWidths, h \in PolicyHeights :
  Constructed(c) /\ innerWidth = w /\ innerHeight = h

NextPolicy ==
  \/ CountAtInit
  \/ \E w \in PolicyWidths, h \in PolicyHeights : CountAtResize(w, h)

SpecPolicy == InitPolicy /\ [][NextPolicy]_vars

Logged == Range(countLog)

\* C8 (as amended): SnowfallOptimized computes floor(width * height / divisor)
\* capped at maxCount (divisor 15000 and cap 50 below 768 pixels of width,
\* 10000 and 100 from 768 on), so its count lies in [0, maxCount] and is 96
\* for 1200 x 800; Snowfall computes floor(width * height / 8000), uncapped.
C8_CountFormula ==
  \A e \in Logged :
    LET area == e.width * e.height
        cap  == IF e.width < 768 THEN 50 ELSE 100
        div  == IF e.width < 768 THEN 15000 ELSE 10000
    IN  IF component = "SnowfallOptimized"
        THEN /\ e.count = (IF area \div div > cap THEN cap ELSE area \div div)
             /\ e.count >= 0 /\ e.count <= cap
             /\ (e.width = 1200 /\ e.height = 800) => e.count = 96
        ELSE /\ e.count = area \div 8000
             /\ e.count >= 0

\* C8, witness: the 1200 x 800 count of SnowfallOptimized was computed at a
\* resize, after a capped count
C8_Witness ==
  /\ component = "SnowfallOptimized"
  /\ Len(countLog) = 2
  /\ countLog[1].count = 100
  /\ countLog[2] = [width |-> 1200, height |-> 800, count |-> 96]

\* C8 (as claimed): in both snowfall variants the count never exceeds
\* maxCount (50 for a compact viewport, 100 for a regular one).
C8_Original ==
  \A e \in Logged : e.count >= 0 /\ e.count <= (IF e.width < 768 THEN 50 ELSE 100)

\* C9 (as amended): in SnowfallOptimized the divisor of a compact viewport
\* (width < 768) is larger than that of a regular one, so for the same area
\* the compact viewport gets at most as many snowflakes as the regular one.
C9_CompactSparser ==
  component = "SnowfallOptimized" =>
    \A a \in Logged, b \in Logged :
      (a.width < 768 /\ b.width >= 768) =>
        /\ Divisor(component, a.width) > Divisor(component, b.width)
        /\ (a.width * a.height = b.width * b.height) => a.count <= b.count

\* C9, witness: a compact and a regular viewport of the same area, counted
\* 32 and 48
C9_Witness ==
  /\ component = "SnowfallOptimized"
  /\ \E a \in Logged, b \in Logged :
       /\ a.width < 768 /\ b.width >= 768
       /\ a.width * a.height = b.width * b.height
       /\ a.count = 32 /\ b.count = 48

\* C9 (as claimed): the divisor of a compact viewport is the smaller one, so
\* for the same area, below the caps, the compact viewport gets at least as
\* many snowflakes as the regular one.
C9_Original ==
  component = "SnowfallOptimized" =>
    \A a \in Logged, b \in Logged :
      (a.width < 768 /\ b.width >= 768) =>
        /\ Divisor(component, a.width) < Divisor(component, b.width)
        /\ (a.width * a.height = b.width * b.height /\ a.count < 50 /\ b.count < 100)
             => a.count >= b.count

\* C10 (as amended): among viewports of one device class (both narrower than
\* 768 pixels, or both not) the count is non-decreasing in width * height,
\* and in SnowfallOptimized it never exceeds the cap of the class; Snowfall,
\* which has one class and no cap, is non-decreasing throughout.
C10_MonotoneWithinClass ==
  \A a \in Logged, b \in Logged :
    /\ (/\ component = "SnowfallOptimized" => ((a.width < 768) <=> (b.width < 768))
        /\ a.width * a.height <= b.width * b.height)
         => a.count <= b.count
    /\ component = "SnowfallOptimized" =>
         a.count <= (IF a.width < 768 THEN 50 ELSE 100)

\* C10, witness: two viewports of one class with different areas and counts
\* below the cap, and one of them followed by a capped count
C10_Witness ==
  /\ Len(countLog) = 2
  /\ component = "SnowfallOptimized"
  /\ countLog[1].width >= 768 /\ countLog[2].width >= 768
  /\ countLog[1].width * countLog[1].height < countLog[2].width * countLog[2].height
  /\ countLog[1].count < countLog[2].count
  /\ countLog[2].count = 100

\* C10 (as claimed): for any two viewports, the one of the smaller or equal
\* area has the smaller or equal count, and every count is at most maxCount.
C10_Original ==
  \A a \in Logged, b \in Logged :
    /\ a.width * a.height <= b.width * b.height => a.count <= b.count
    /\ a.count <= (IF a.width < 768 THEN 50 ELSE 100)

-----------------------------------------------------------------------------
(* The clock: the resize debounce and the sparkle rate limit *)

\* the time at which the clock specification stops
MaxTime == 1400

\* the steps of the clock, in milliseconds
ClockSteps == {30, 50}

\* d milliseconds pass with no event
Advance(d) ==
  /\ now + d <= MaxTime
  /\ now' = now + d
  /\ UNCHANGED <<lifecycleVars, cursorVars, drawn, windowVars, snowVars, pageVars>>

\* the timer set by setTimeout(..., 250) runs its callback, no earlier than
\* its delay
TimerFires == now >= timerDue /\ ResizeTimeout

InitClock == \E c \in AllComponents :
  /\ Constructed(c)
  /\ innerWidth = 800
  /\ innerHeight = IF c \in SnowComponents THEN 20 ELSE 600

NextClock ==
  \/ \E d \in ClockSteps : Advance(d)
  \/ CursorConnected
  \/ CursorAnimate
  \/ \E r \in FollowerDraws : OnMouseMove(<<60, 70>>, r)
  \/ OnMouseDown
  \/ OnMouseUp
  \/ SnowConnected
  \/ \E v \in Viewports : connected /\ WindowResize(v[1], v[2])
  \/ TimerFires

\* every component with the time passing between the events; the window is
\* resized while the component is connected
SpecClock == InitClock /\ [][NextClock]_vars

\* a resize event handled by handleResize()
Resized ==
  /\ <<innerWidth', innerHeight'>> # <<innerWidth, innerHeight>>
  /\ "resize" \in listeners

\* the canvas or the population changes while the component stays connected
Adjusted ==
  /\ connected' = connected
  /\ \/ <<canvasWidth', canvasHeight'>> # <<canvasWidth, canvasHeight>>
     \/ Len(snowflakes') # Len(snowflakes)

\* C21: a resize event leaves one timer pending, due 250 ms later, and
\* changes neither the canvas nor the population; these change only when
\* the pending timer fires, 250 ms or more after the last resize event,
\* to the viewport of that moment, and then no timer is left
C21_Debounced ==
  [][/\ Resized =>
          /\ timers' = {resizeTimeout'}
          /\ resizeTimeout' # 0
          /\ timerDue' = now + 250
          /\ UNCHANGED <<canvasWidth, canvasHeight, snowflakes>>
     /\ Adjusted =>
          /\ timers = {resizeTimeout}
          /\ timers' = {}
          /\ now >= timerDue
          /\ UNCHANGED <<innerWidth, innerHeight>>
     /\ (timers' = {} /\ timers # {}) =>
          /\ canvasWidth' = (IF component = "Snowfall" THEN innerWidth
                                                       ELSE innerWidth * Dpr)
          /\ canvasHeight' = (IF component = "Snowfall" THEN innerHeight
                                                        ELSE innerHeight * Dpr)
          /\ Len(snowflakes') = CountFor(innerWidth, innerHeight)
    ]_vars

\* C21, witness: the window went from 800 to 400 pixels and back within
\* 250 ms (two timers cannot have run by 1500), and a timer has fired
C21_Witness ==
  /\ IsSnow /\ connected
  /\ timers = {} /\ resizeTimeout # 0
  /\ timerDue > 1250
  /\ timerDue < 1500
  /\ now >= timerDue
  /\ innerWidth = 800

\* a pointer move handled by onMouseMove
Moved == \E r \in FollowerDraws : OnMouseMove(<<60, 70>>, r)

\* C22: a pointer move appends at most one sparkle, and only if more than
\* 80 ms (HolidayCursor; 50 ms in HolidayMouse) have passed since
\* lastParticleTime and, in HolidayCursor, the button is not held; the
\* spawn sets lastParticleTime to the time of the move, and a move that
\* spawns nothing leaves lastParticleTime and the particles as they were
C22_RateLimited ==
  [][Moved =>
       IF Len(particles') # Len(particles)
       THEN /\ Len(particles') = Len(particles) + 1
            /\ SubSeq(particles', 1, Len(particles)) = particles
            /\ particles'[Len(particles')].kind = "sparkle"
            /\ now - lastParticleTime > (IF component = "HolidayCursor" THEN 80 ELSE 50)
            /\ component = "HolidayCursor" => ~isClicking
            /\ lastParticleTime' = now
       ELSE UNCHANGED <<particles, lastParticleTime>>
    ]_vars

\* C22, witness: a second sparkle has been spawned, more than the interval
\* after the first, which is still alive
C22_Witness ==
  /\ IsCursor /\ connected
  /\ Len(particles) = 2
  /\ lastParticleTime > 1000 + SparkleInterval(component)
  /\ lastParticleTime = now
  /\ \A i \in DOMAIN particles : particles[i].kind = "sparkle"

\* C22, witness of the refusals: a move made 50 ms after a spawn, or with
\* the button held long after it, that spawned nothing
C22_WitnessRefused ==
  /\ component = "HolidayCursor" /\ connected
  /\ isClicking
  /\ mouseX = 60
  /\ lastParticleTime = 0
  /\ now > 1100

-----------------------------------------------------------------------------
(* The pause of SnowfallOptimized *)

\* C23, in terms of this.isVisible: in SnowfallOptimized a frame that runs
\* while isVisible is false leaves the snowflakes, the canvas and what is painted on it
\* unchanged and requests the next frame; while isVisible is false only the
\* resize timer changes the snowflakes; and a frame that runs while
\* isVisible is true moves every snowflake of the list held at that moment
C23_PausedWhileNotVisible ==
  [][component = "SnowfallOptimized" =>
       /\ (SnowAnimate /\ ~isVisible) =>
            /\ UNCHANGED <<snowflakes, drawn, canvasWidth, canvasHeight>>
            /\ Cardinality(frames') = 1
            /\ animationId' \in frames'
       /\ (~isVisible /\ snowflakes' # snowflakes) =>
            (timers' # timers /\ frameCount' = frameCount)
       /\ (SnowAnimate /\ isVisible) =>
            /\ Len(snowflakes') = Len(snowflakes)
            /\ \A i \in DOMAIN snowflakes :
                 LET m == MoveSnowflake(component, snowflakes[i], now)
                 IN  /\ snowflakes'[i].angle = m.angle
                     /\ snowflakes'[i].y \in {m.y, (0 - 10) * Micro}
    ]_vars

\* C23, the pause reached: the page was hidden after connectedCallback and a frame
\* has run since; the one snowflake is where the frame of
\* connectedCallback left it
C23_Witness ==
  /\ component = "SnowfallOptimized" /\ connected
  /\ ~isVisible /\ documentHidden
  /\ frameCount = 2
  /\ resizeTimeout = 0
  /\ Len(snowflakes) = 1
  /\ \E d \in FlakeDraws, rx \in ResetDraws :
       snowflakes[1] = UpdateSnowflake(component,
                         CreateSnowflake(component, FALSE, d, innerWidth, innerHeight),
                         innerWidth, innerHeight, now, rx)

\* C23: in SnowfallOptimized every frame that runs while the page is hidden
\* leaves the snowflakes and the canvas unchanged (isVisible starts TRUE
\* whatever document.hidden is, and follows it only from the first
\* visibilitychange event after connectedCallback)
C23_PausedWhileHidden ==
  [][(component = "SnowfallOptimized" /\ documentHidden /\ SnowAnimate)
       => UNCHANGED <<snowflakes, drawn>>]_vars

-----------------------------------------------------------------------------
(* The lifetime of the particles *)

InitDecay == \E c \in CursorComponents :
  Constructed(c) /\ innerWidth = 800 /\ innerHeight = 600

NextDecay ==
  \/ CursorConnected
  \/ CursorAnimate
  \/ \E r \in SparkleDraws : OnMouseMove(<<mouseX, mouseY>>, r)
  \/ \E e \in {<<100, 100>>}, r \in BurstDraws : OnClick(e, r)

\* a frame would change the state: one is pending and there are particles
\* (the pointer of this specification rests, so the followers rest too)
FrameDue == frames # {} /\ particles # <<>>

\* every frame requests the next one and the browser runs the frames it was
\* asked for: WF_vars(CursorAnimate), with FrameDue written out for
\* ENABLED <<CursorAnimate>>_vars
FrameFairness == []<>(~FrameDue) \/ []<><<CursorAnimate>>_vars

\* the cursor components under spawns, clicks and frames, the frames being
\* run
SpecDecay == InitDecay /\ [][NextDecay]_vars /\ FrameFairness

\* the updateParticles passes the particle p has been through
Age(p) == (Micro - p.life) \div p.decay

\* C24: every particle has life 1.0 at spawn and a decay of 0.01 or more, is
\* in the list for fewer than 100 updateParticles passes and is removed by
\* the 100th at the latest; unless particles are spawned again and again,
\* the list becomes empty and stays empty
C24_BoundedLifetime ==
  /\ [](\A i \in DOMAIN particles :
         /\ particles[i].decay >= 10000
         /\ particles[i].life = Micro - Age(particles[i]) * particles[i].decay
         /\ Age(particles[i]) < 100)
  /\ [](/\ ticksSinceSpawn <= 100
        /\ particles # <<>> => ticksSinceSpawn < 100)
  /\ [][Len(particles') > Len(particles) =>
          \A i \in (Len(particles) + 1)..Len(particles') :
            particles'[i].life = Micro]_vars
  /\ \/ <>[](particles = <<>>)
     \/ []<><<Len(particles') > Len(particles)>>_vars

\* C24, witness: the list is empty after the 100th pass since the last
\* spawn, the 100th pass of a sparkle of decay 0.01
C24_Witness ==
  /\ IsCursor /\ connected
  /\ particles = <<>>
  /\ lastSpawn = "sparkle"
  /\ ticksSinceSpawn = 100

-----------------------------------------------------------------------------
(* The fall of the snowflakes *)

\* the snowflake went down in the frame, or was put back at the top
Fell(before, after) == after.y > before.y \/ after.y = (0 - 10) * Micro

\* C25: every snowflake has a depth in (0, 1] and a positive fall speed, and
\* every frame that updates the snowflakes moves each of them down or puts
\* it back at the top
C25_AlwaysFalling ==
  [][SnowUpdated =>
       \A i \in DOMAIN snowflakes :
         /\ snowflakes[i].depth > 0
         /\ snowflakes[i].depth <= Micro
         /\ snowflakes[i].speedY > 0
         /\ Fell(snowflakes[i], snowflakes'[i])]_vars

\* C25, for SnowfallOptimized alone, whose depth is 0.5 or more: every
\* frame that updates the snowflakes moves each of them down or puts it back
C25_OptimizedFalling ==
  [][(SnowUpdated /\ component = "SnowfallOptimized") =>
       \A i \in DOMAIN snowflakes :
         /\ snowflakes[i].depth >= 500000
         /\ snowflakes[i].depth <= Micro
         /\ Fell(snowflakes[i], snowflakes'[i])]_vars

-----------------------------------------------------------------------------
(* Gravity *)

\* C26: an updateParticles pass moves every particle it keeps by the vx and
\* the vy the particle had before the pass, then adds the gravity (0.08 in
\* HolidayCursor, 0.1 in HolidayMouse) to vy and leaves vx; a snow frame
\* leaves the speedY of every snowflake
C26_Gravity ==
  [][/\ CursorAnimate =>
          \A j \in DOMAIN particles' :
            \E i \in DOMAIN particles :
              LET p == particles[i]
                  q == particles'[j]
              IN  /\ q.id = p.id
                  /\ q.x = p.x + p.vx
                  /\ q.y = p.y + p.vy
                  /\ q.vy = p.vy + (IF component = "HolidayCursor" THEN 80000
                                                                   ELSE 100000)
                  /\ q.vx = p.vx
     /\ SnowAnimate =>
          /\ Len(snowflakes') = Len(snowflakes)
          /\ \A i \in DOMAIN snowflakes :
               snowflakes'[i].speedY = snowflakes[i].speedY
    ]_vars

\* C26, witness: a sparkle and a burst particle that have each been through
\* two passes or more
C26_Witness ==
  /\ IsCursor /\ connected
  /\ \E i \in Sparkles(particles) : Age(particles[i]) >= 2
  /\ \E i \in Bursts(particles) : Age(particles[i]) >= 2

-----------------------------------------------------------------------------
(* Reconnection of the snowfall *)

\* C27: after every connectedCallback of a snowfall component, a reconnect
\* included, the list holds exactly the count of the current viewport
C27_FreshPopulation ==
  [][(IsSnow /\ ~connected /\ connected')
       => Len(snowflakes') = CountFor(innerWidth, innerHeight)]_vars

-----------------------------------------------------------------------------
(* The hover listeners *)

\* C28: whatever DOM mutations occur, a clickable element carries at most
\* one mouseenter/mouseleave listener pair of a cursor component, so that
\* one hover transition calls onElementHover once
C28_OneHandlerPair == IsCursor => hoverPairs <= 1

-----------------------------------------------------------------------------
(* The sizes of the cursor *)

InitPointer == \E c \in CursorComponents :
  Constructed(c) /\ innerWidth = 800 /\ innerHeight = 600

NextPointer ==
  \/ CursorConnected
  \/ CursorAnimate
  \/ \E r \in FollowerDraws : OnMouseMove(<<60, 70>>, r)
  \/ OnMouseDown
  \/ OnMouseUp
  \/ \E b \in BOOLEAN : OnElementHover("el", b)

\* a connected cursor component under button and hover events
SpecPointer == InitPointer /\ [][NextPointer]_vars

\* C29: while the button is not held, the dot and the ring of a connected
\* cursor component have the hover size if isHovering and the normal size
\* otherwise
C29_SizeFollowsHover ==
  (IsCursor /\ connected /\ ~isClicking) =>
    /\ dotSize = (IF ~isHovering THEN 10
                  ELSE IF component = "HolidayCursor" THEN 14 ELSE 15)
    /\ ringSize = (IF ~isHovering THEN 40
                   ELSE IF component = "HolidayCursor" THEN 70 ELSE 60)

\* C29, for HolidayCursor alone, whose onMouseUp sets the sizes in both
\* cases
C29_HolidayCursorSizes ==
  component = "HolidayCursor" => C29_SizeFollowsHover

====
